---- MODULE Spec2Model ----
(***************************************************************************)
(* Retro-cue working-memory task (experiment_run.py, drawing_and_timing.py)*)
(*                                                                         *)
(* The module holds several specifications over one set of variables:      *)
(*   SamplerSpec      the rejection samplers sample_orientations and       *)
(*                    sample_colors, one loop iteration per step           *)
(*   FairSamplerSpec  the same with fair candidate choice                  *)
(*   BuildSpec        build_trial_list, one appended trial per step        *)
(*   PresentSpec      single calls of present_for_ms                       *)
(*   SrcTrialSpec     main and run_single_trial with the constructors of   *)
(*                    drawing_and_timing.py, one phase per step            *)
(*   TrialSpec        the same with constructors that take the keyword     *)
(*                    arguments run_single_trial passes                    *)
(*   AxialSpec        single calls of axial_abs_diff                       *)
(* Variables a specification does not use keep their idle value.           *)
(***************************************************************************)
EXTENDS Integers, Sequences, FiniteSets, TLC

VARIABLES
    sampler,    \* which sampler runs: "sample_orientations" | "sample_colors" | "idle"
    n,          \* argument n
    min_sep,    \* argument min_sep
    lo,         \* argument lo
    hi,         \* argument hi
    chosen,     \* the list `chosen` of accepted values
    cand,       \* the last candidate drawn by random.randint (0 before the first draw)
    spc,        \* position in the sampler: "loop" | "returned" | "idle"
    design,     \* the design build_trial_list reads: [cue_types, delays, repeats]
    trials,     \* the list `trials` of build_trial_list
    loopAt,     \* the loop counters of build_trial_list: <<cue index, delay index, repeat index>>
    bpc,        \* position in build_trial_list: "loops" | "returned" | "idle"
    clock,      \* exp.clock.time, in ms
    screen,     \* the stimuli of the frame last flipped to the display
    present_args, \* the arguments of the present_for_ms call: [stims, duration_ms]
    last_present, \* what the last present_for_ms call did: [drew, draw_time, waited, t0, t1]
    ppc,        \* position of the present_for_ms call: "call" | "returned" | "idle"
    drawing,    \* the module drawing_and_timing as imported: the signatures of its constructors
    all_trials, \* main: the list the for loop runs over
    trial_no,   \* main: number of trials the for loop has started
    log,        \* exp.data: the rows added by exp.data.add
    mpc,        \* position in main: "running" | "ended" | "crashed" | "idle"
    phase,      \* run_single_trial: the phase entered last ("idle" before the first trial)
    phases,     \* history: the phases the running trial has entered, in order
    sched,      \* history: sum of the durations the running trial has asked present_for_ms for
    cue_type,   \* run_single_trial: argument cue_type
    cue_probe_delay_ms, \* run_single_trial: argument cue_probe_delay_ms
    bars,       \* run_single_trial: the memory array
    target_bar, \* run_single_trial: the bar random.choice picked (NoBar before)
    current_angle, \* run_single_trial: current_angle, a double
    last_mouse_x,  \* run_single_trial: last_mouse_x
    reported_orientation, \* run_single_trial: reported_orientation (None or a double)
    response_done, \* run_single_trial: response_done
    offset,     \* run_single_trial: offset (None or a double)
    start_x,    \* history: the pointer reading taken before the response loop
    iters,      \* history: iterations of the response loop so far
    signal,     \* history: what the participant did during the last iteration:
                \* "none" | "click" (left mouse button) | "key" (space bar)
    arg_a,      \* axial_abs_diff called on its own: argument a, a double
    arg_b,      \* axial_abs_diff called on its own: argument b, a double
    ret,        \* axial_abs_diff called on its own: the value returned (None before)
    fpc         \* position of that call: "call" | "returned" | "idle"

samplerVars == <<sampler, n, min_sep, lo, hi, chosen, cand, spc>>
buildVars == <<design, trials, loopAt, bpc>>
presentVars == <<clock, screen, present_args, last_present, ppc>>
mainVars == <<drawing, all_trials, trial_no, log, mpc>>
trialVars == <<phase, phases, sched, cue_type, cue_probe_delay_ms, bars, target_bar>>
respVars == <<current_angle, last_mouse_x, reported_orientation, response_done,
              offset, start_x, iters, signal>>
axialVars == <<arg_a, arg_b, ret, fpc>>
vars == <<sampler, n, min_sep, lo, hi, chosen, cand, spc, design, trials, loopAt, bpc,
          clock, screen, present_args, last_present, ppc, drawing, all_trials, trial_no, log, mpc,
          phase, phases, sched, cue_type, cue_probe_delay_ms, bars, target_bar,
          current_angle, last_mouse_x, reported_orientation, response_done,
          offset, start_x, iters, signal, arg_a, arg_b, ret, fpc>>

----------------------------------------------------------------------------
(* Bounds of the model *)

\* candidates of the orientation sampler are taken every OriStride degrees
OriStride == 15
\* candidates of the hue sampler are taken every HueStride degrees
HueStride == 30
\* the design is built with 1..MaxRepeats repetitions per condition
MaxRepeats == 2
\* the design is built with the first 1..MaxDelays cue/probe delays
MaxDelays == 2
\* random.shuffle is let to exchange at most MaxSwaps pairs of positions
MaxSwaps == 1
\* a draw + flip takes a multiple of DrawQuantum ms, up to MaxDrawTicks of them
DrawQuantum == 25
MaxDrawTicks == 7
\* the samplers of a trial draw candidates every TrialOriStride / TrialHueStride degrees
TrialOriStride == 60
TrialHueStride == 90
\* the response loop runs at most MaxIters iterations without a click
MaxIters == 1
\* axial_abs_diff is called on the whole degrees 0, AxialStep, 2 AxialStep, ... up to 360
AxialStep == 45
\* and on the angles the probe has after one pointer movement of up to MaxDx pixels
MaxDx == 3

----------------------------------------------------------------------------
(* Program constants, experiment_run.py *)

N_ITEMS_PER_ARRAY == 4
ORI_RANGE_DEG     == <<1, 180>>
ORI_MIN_SEP_DEG   == 30
COL_RANGE_DEG     == <<1, 360>>
COL_MIN_SEP_DEG   == 60
CUE_TYPES         == <<"spatial", "color", "no_cue">>
FIXATION_DURATION_MS == 300
MEMORY_DURATION_MS   == 500
FIRST_BLANK_DELAY_MS == 500
CUE_DURATION_MS      == 100
FEEDBACK_DURATION_MS == 1000
CUE_PROBE_DELAYS_MS == <<50, 200, 350, 500, 650>>

----------------------------------------------------------------------------
(* Helpers *)

Abs(x) == IF x < 0 THEN -x ELSE x

Min2(a, b) == IF a <= b THEN a ELSE b

\* circular_distance(a, b, period): diff = abs(a - b) % period; min(diff, period - diff)
circular_distance(a, b, period) ==
    LET diff == Abs(a - b) % period
    IN  Min2(diff, period - diff)

\* ori_accepts with the comparison > in place of >=
ori_accepts_strict(c, ch, sep) ==
    \A i \in 1..Len(ch) : Abs(c - ch[i]) > sep

\* the test of sample_orientations: all(abs(cand - prev) >= min_sep for prev in chosen)
ori_accepts(c, ch, sep) ==
    \A i \in 1..Len(ch) : Abs(c - ch[i]) >= sep

\* col_accepts with the plain difference in place of the circular distance
col_accepts_linear(c, ch, sep) ==
    \A i \in 1..Len(ch) : Abs(c - ch[i]) >= sep

\* the test of sample_colors: all(circular_distance(cand, prev, 360) >= min_sep ...)
col_accepts(c, ch, sep) ==
    \A i \in 1..Len(ch) : circular_distance(c, ch[i], 360) >= sep

accepts(s, c, ch, sep) ==
    IF s = "sample_orientations" THEN ori_accepts(c, ch, sep)
                                 ELSE col_accepts(c, ch, sep)

\* the values random.randint(lo, hi) is let to return: lo, hi and every
\* stride-th integer between them
Candidates(l, h, stride) ==
    {c \in l..h : (c - l) % stride = 0 \/ c = h}

\* the stride of the candidates when a sampler is run on its own
StrideOf(s) == IF s = "sample_orientations" THEN OriStride ELSE HueStride

\* the two calls create_memory_array makes
OriCall == [sampler |-> "sample_orientations", n |-> N_ITEMS_PER_ARRAY,
            min_sep |-> ORI_MIN_SEP_DEG, lo |-> ORI_RANGE_DEG[1], hi |-> ORI_RANGE_DEG[2]]
ColCall == [sampler |-> "sample_colors", n |-> N_ITEMS_PER_ARRAY,
            min_sep |-> COL_MIN_SEP_DEG, lo |-> COL_RANGE_DEG[1], hi |-> COL_RANGE_DEG[2]]

\* calls of the samplers with other arguments: fewer items, another
\* separation, a sub-range, and arguments no selection can satisfy
OtherCalls ==
    { [sampler |-> "sample_orientations", n |-> 4, min_sep |-> 30, lo |-> 1, hi |-> 80],
      [sampler |-> "sample_orientations", n |-> 0, min_sep |-> 30, lo |-> 1, hi |-> 180],
      [sampler |-> "sample_colors", n |-> 4, min_sep |-> 120, lo |-> 1, hi |-> 360],
      [sampler |-> "sample_colors", n |-> 3, min_sep |-> 100, lo |-> 1, hi |-> 360],
      [sampler |-> "sample_colors", n |-> 2, min_sep |-> 60, lo |-> 300, hi |-> 420] }

SamplerCalls == {OriCall, ColCall} \cup OtherCalls

----------------------------------------------------------------------------
(* sample_orientations / sample_colors *)

SamplerIdle ==
    /\ sampler = "idle" /\ n = 0 /\ min_sep = 0 /\ lo = 0 /\ hi = 0
    /\ chosen = << >> /\ cand = 0 /\ spc = "idle"

BuildIdle ==
    /\ design = [cue_types |-> << >>, delays |-> << >>, repeats |-> 0]
    /\ trials = << >> /\ loopAt = <<0, 0, 0>> /\ bpc = "idle"

None == <<"None">>
NoBar == [pos |-> <<0, 0>>, ori_deg |-> 0, color_deg |-> 0]
NoPresent == [drew |-> FALSE, draw_time |-> 0, waited |-> 0, t0 |-> 0, t1 |-> 0]
NoArgs == [stims |-> << >>, duration_ms |-> 0]

PresentIdle ==
    /\ clock = 0 /\ screen = << >> /\ present_args = NoArgs
    /\ last_present = NoPresent /\ ppc = "idle"

MainIdle ==
    /\ drawing = << >> /\ all_trials = << >> /\ trial_no = 0 /\ log = << >> /\ mpc = "idle"

AxialIdle ==
    /\ arg_a = None /\ arg_b = None /\ ret = None /\ fpc = "idle"

TrialIdle ==
    /\ phase = "idle" /\ phases = << >> /\ sched = 0 /\ cue_type = "" /\ cue_probe_delay_ms = 0
    /\ bars = << >> /\ target_bar = NoBar
    /\ current_angle = None /\ last_mouse_x = 0 /\ reported_orientation = None
    /\ response_done = FALSE /\ offset = None /\ start_x = 0 /\ iters = 0
    /\ signal = "none"
    /\ AxialIdle

SamplerInit ==
    /\ BuildIdle /\ PresentIdle /\ MainIdle /\ TrialIdle
    /\ \E call \in SamplerCalls :
        /\ sampler = call.sampler
        /\ n = call.n
        /\ min_sep = call.min_sep
        /\ lo = call.lo
        /\ hi = call.hi
        /\ chosen = << >>
        /\ cand = 0
        /\ spc = "loop"

\* one iteration of the while loop whose candidate passes the test
SampleAccept ==
    /\ spc = "loop"
    /\ Len(chosen) < n
    /\ \E c \in Candidates(lo, hi, StrideOf(sampler)) :
        /\ accepts(sampler, c, chosen, min_sep)
        /\ cand' = c
        /\ chosen' = Append(chosen, c)
    /\ UNCHANGED <<sampler, n, min_sep, lo, hi, spc>>
    /\ UNCHANGED <<buildVars, presentVars, mainVars, trialVars, respVars>>
    /\ UNCHANGED axialVars

\* one iteration of the while loop whose candidate fails the test
SampleReject ==
    /\ spc = "loop"
    /\ Len(chosen) < n
    /\ \E c \in Candidates(lo, hi, StrideOf(sampler)) :
        /\ ~accepts(sampler, c, chosen, min_sep)
        /\ cand' = c
    /\ UNCHANGED <<sampler, n, min_sep, lo, hi, chosen, spc>>
    /\ UNCHANGED <<buildVars, presentVars, mainVars, trialVars, respVars>>
    /\ UNCHANGED axialVars

\* the loop condition fails: return chosen
SampleReturn ==
    /\ spc = "loop"
    /\ ~(Len(chosen) < n)
    /\ spc' = "returned"
    /\ UNCHANGED <<sampler, n, min_sep, lo, hi, chosen, cand>>
    /\ UNCHANGED <<buildVars, presentVars, mainVars, trialVars, respVars>>
    /\ UNCHANGED axialVars

SamplerNext == SampleAccept \/ SampleReject \/ SampleReturn

SamplerSpec == SamplerInit /\ [][SamplerNext]_vars

\* random.randint draws every value of the range again and again
FairSamplerSpec ==
    SamplerInit /\ [][SamplerNext]_vars
    /\ WF_vars(SampleAccept) /\ WF_vars(SampleReject) /\ WF_vars(SampleReturn)

----------------------------------------------------------------------------
(* build_trial_list *)

\* the designs build_trial_list is run on: the three cue types, the first
\* delays of CUE_PROBE_DELAYS_MS and a number of repetitions
Designs ==
    { [cue_types |-> CUE_TYPES,
       delays |-> SubSeq(CUE_PROBE_DELAYS_MS, 1, d),
       repeats |-> r] : d \in 1..MaxDelays, r \in 1..MaxRepeats }

\* x[i], x[j] = x[j], x[i]
Swap(x, i, j) ==
    [k \in 1..Len(x) |-> IF k = i THEN x[j] ELSE IF k = j THEN x[i] ELSE x[k]]

\* the orders random.shuffle(x) is let to leave: x with at most k pairs of
\* positions exchanged
RECURSIVE ShuffleOrders(_, _)
ShuffleOrders(x, k) ==
    IF k = 0 \/ Len(x) < 2 THEN {x}
    ELSE LET prev == ShuffleOrders(x, k - 1)
         IN  prev \cup { Swap(y, i, j) : y \in prev, i \in 1..Len(x), j \in 1..Len(x) }

BuildInit ==
    /\ SamplerIdle /\ PresentIdle /\ MainIdle /\ TrialIdle
    /\ design \in Designs
    /\ trials = << >>
    /\ loopAt = <<1, 1, 1>>
    /\ bpc = "loops"

\* the loop counters after one more pass, with range(REPEATS - 1) as the innermost loop
NextLoopAt_short(at, d) ==
    IF at[3] < d.repeats - 1 THEN <<at[1], at[2], at[3] + 1>>
    ELSE IF at[2] < Len(d.delays) THEN <<at[1], at[2] + 1, 1>>
    ELSE <<at[1] + 1, 1, 1>>

\* the loop counters after one more pass of the innermost loop
NextLoopAt(at, d) ==
    IF at[3] < d.repeats THEN <<at[1], at[2], at[3] + 1>>
    ELSE IF at[2] < Len(d.delays) THEN <<at[1], at[2] + 1, 1>>
    ELSE <<at[1] + 1, 1, 1>>

\* the trial one pass of the innermost loop appends
TrialAt(at, d) ==
    [cue_type |-> d.cue_types[at[1]], delay |-> d.delays[at[2]]]

\* one pass of the innermost loop: trials.append({...})
AppendTrial ==
    /\ bpc = "loops"
    /\ loopAt[1] <= Len(design.cue_types)
    /\ trials' = Append(trials, TrialAt(loopAt, design))
    /\ loopAt' = NextLoopAt(loopAt, design)
    /\ UNCHANGED <<design, bpc>>
    /\ UNCHANGED <<samplerVars, presentVars, mainVars, trialVars, respVars>>
    /\ UNCHANGED axialVars

\* the loops are over: random.shuffle(trials); return trials
ShuffleAndReturn ==
    /\ bpc = "loops"
    /\ loopAt[1] > Len(design.cue_types)
    /\ trials' \in ShuffleOrders(trials, MaxSwaps)
    /\ bpc' = "returned"
    /\ UNCHANGED <<design, loopAt>>
    /\ UNCHANGED <<samplerVars, presentVars, mainVars, trialVars, respVars>>
    /\ UNCHANGED axialVars

BuildNext == AppendTrial \/ ShuffleAndReturn

BuildSpec == BuildInit /\ [][BuildNext]_vars

----------------------------------------------------------------------------
(* Python floats (IEEE 754 doubles, round to nearest even) as used by       *)
(* run_single_trial.  A double v is written <<T, E>> with                   *)
(*     v = T/10 + E * u,   u = 2^-54 / 5,                                   *)
(* T the value in tenths of a degree and E its deviation: every double met  *)
(* here is a multiple of 2^-54 = 5u below 1024, so T and E are small.       *)

FlNeg(x) == <<0 - x[1], 0 - x[2]>>

FlIsNeg(x) == x[1] < 0 \/ (x[1] = 0 /\ x[2] < 0)

FlAbs(x) == IF FlIsNeg(x) THEN FlNeg(x) ELSE x

\* x < y
FlLess(x, y) == x[1] < y[1] \/ (x[1] = y[1] /\ x[2] < y[2])

\* float(i) of an integer i
FlInt(i) == <<10 * i, 0>>

\* 2^e mod 5
Pow2Mod5(e) == CASE e % 4 = 0 -> 1 [] e % 4 = 1 -> 2 [] e % 4 = 2 -> 4 [] OTHER -> 3

\* the binade of a >= 0: the largest j in -1..9 with 2^j <= a, or -2 when a < 1/2
FlBinade(a) ==
    LET js == {j \in (0 - 1)..9 :
                  a[1] > 5 * 2^(j + 1) \/ (a[1] = 5 * 2^(j + 1) /\ a[2] >= 0)}
    IN  IF js = {} THEN 0 - 2 ELSE CHOOSE j \in js : \A i \in js : i <= j

\* the element of a one-element set; used to evaluate an argument once
Only(S) == CHOOSE v \in S : TRUE

\* the double nearest to the real number T/10 + E*u (ties to even).  In the
\* binade j the doubles are the multiples of G = 2^(j-52) = 5 * 2^(j+2) u;
\* below 1/2 every multiple of 2^-54 is a double.
FlRoundIn(x, a, j) ==
    IF j < 0 - 1 THEN x
    ELSE LET G  == 5 * 2^(j + 2)
             r  == (2^(j + 3) * (((a[1] % 5) * Pow2Mod5(50 - j)) % 5) + a[2]) % (2 * G)
             r1 == r % G
             odd == r \div G
             e  == IF 2 * r1 < G \/ (2 * r1 = G /\ odd = 0)
                   THEN a[2] - r1 ELSE a[2] + G - r1
             b  == <<a[1], e>>
         IN  IF FlIsNeg(x) THEN FlNeg(b) ELSE b

FlRound(x0) ==
    Only({ Only({ FlRoundIn(x, FlAbs(x), j) : j \in {FlBinade(FlAbs(x))} }) : x \in {x0} })

\* x + y
FlAdd(x, y) == FlRound(<<x[1] + y[1], x[2] + y[2]>>)

\* x - y
FlSub(x, y) == FlAdd(x, FlNeg(y))

\* x * i for an integer i
FlMulInt(x, i) == FlRound(<<x[1] * i, x[2] * i>>)

\* C fmod(x, m) for an integer m > 0 given in tenths: exact, sign of x
FlFmodOf(x, m10) ==
    LET a == FlAbs(x)
        q0 == a[1] \div m10
        q == IF a[1] % m10 = 0 /\ a[2] < 0 /\ q0 > 0 THEN q0 - 1 ELSE q0
        b == <<a[1] - m10 * q, a[2]>>
    IN  IF FlIsNeg(x) THEN FlNeg(b) ELSE b

FlFmod(x0, m10) == Only({ FlFmodOf(x, m10) : x \in {x0} })

\* Python x % m for an integer m > 0 given in tenths (float_rem): fmod, then
\* m is added to a negative remainder
FlMod(x0, m10) ==
    Only({ IF m = <<0, 0>> THEN <<0, 0>>
           ELSE IF FlIsNeg(m) THEN FlAdd(m, <<m10, 0>>) ELSE m : m \in {FlFmod(x0, m10)} })

\* ROTATION_SENSITIVITY = 0.4; the double 0.4 is 0.4 + 2u
ROTATION_SENSITIVITY == <<4, 2>>

\* line 335: (current_angle + ROTATION_SENSITIVITY * dx) % 360
rotate(angle, dx) ==
    FlMod(FlAdd(angle, FlMulInt(ROTATION_SENSITIVITY, dx)), 3600)

\* axial_abs_diff(a, b): raw = abs(a - b) % 180; min(raw, 180 - raw)
\* axial_abs_diff without the fold min(raw, 180 - raw)
axial_abs_diff_nofold(a, b) ==
    FlMod(Only({FlAbs(d) : d \in {FlSub(a, b)}}), 1800)

\* axial_abs_diff(a, b): raw = abs(a - b) % 180; min(raw, 180 - raw)
axial_abs_diff(a, b) ==
    Only({ Only({ IF FlLess(alt, raw) THEN alt ELSE raw : alt \in {FlSub(FlInt(180), raw)} }) :
             raw \in {FlMod(Only({FlAbs(d) : d \in {FlSub(a, b)}}), 1800)} })

----------------------------------------------------------------------------
(* present_for_ms, drawing_and_timing.py *)

\* the times a draw + flip is let to take
DrawTimes == {t * DrawQuantum : t \in 0..MaxDrawTicks}

\* _timed_draw: t0 = exp.clock.time; blit; flip; return exp.clock.time - t0.
\* The draw + flip takes `took` ms.
timed_draw(clk, took) ==
    LET t0 == clk
        now == clk + took
    IN  [clock |-> now, elapsed |-> now - t0]

\* present_for_ms that always waits the full duration after the draw
present_for_ms_nocomp(clk, duration_ms, took) ==
    IF duration_ms <= 0
    THEN [drew |-> FALSE, draw_time |-> 0, waited |-> 0, t0 |-> clk, t1 |-> clk]
    ELSE [drew |-> TRUE, draw_time |-> took, waited |-> duration_ms,
          t0 |-> clk, t1 |-> clk + took + duration_ms]

\* present_for_ms(exp, stims, duration_ms) called at clock clk, when its
\* draw + flip takes `took` ms; exp.clock.wait(ms) returns ms later
present_for_ms(clk, duration_ms, took) ==
    IF duration_ms <= 0
    THEN [drew |-> FALSE, draw_time |-> 0, waited |-> 0, t0 |-> clk, t1 |-> clk]
    ELSE LET d == timed_draw(clk, took)
             draw_time == d.elapsed
             remaining == duration_ms - draw_time
         IN  IF remaining > 0
             THEN [drew |-> TRUE, draw_time |-> draw_time, waited |-> remaining,
                   t0 |-> clk, t1 |-> d.clock + remaining]
             ELSE [drew |-> TRUE, draw_time |-> draw_time, waited |-> 0,
                   t0 |-> clk, t1 |-> d.clock]

\* an opaque drawable
Stim(kind, pos, angle, hue) == [kind |-> kind, pos |-> pos, angle |-> angle, hue |-> hue]

\* stimuli.FixCross(...)
FixCross == Stim("fixation", <<0, 0>>, None, 0)

\* the durations present_for_ms is called with: those of the trial phases,
\* zero and a negative one
PresentDurations ==
    {FIXATION_DURATION_MS, MEMORY_DURATION_MS, CUE_DURATION_MS, FEEDBACK_DURATION_MS,
     0 - CUE_DURATION_MS, 0}
    \cup {CUE_PROBE_DELAYS_MS[i] : i \in 1..Len(CUE_PROBE_DELAYS_MS)}

PresentInit ==
    /\ SamplerIdle /\ BuildIdle /\ MainIdle /\ TrialIdle
    /\ clock \in {0, FEEDBACK_DURATION_MS}
    /\ screen = << >>
    /\ present_args \in [stims : {<< >>, <<FixCross>>}, duration_ms : PresentDurations]
    /\ last_present = NoPresent
    /\ ppc = "call"

\* one call of present_for_ms, from entry to return
PresentCall ==
    /\ ppc = "call"
    /\ \E took \in DrawTimes :
        LET r == present_for_ms(clock, present_args.duration_ms, took)
        IN  /\ last_present' = r
            /\ clock' = r.t1
            /\ screen' = IF r.drew THEN present_args.stims ELSE screen
    /\ ppc' = "returned"
    /\ UNCHANGED present_args
    /\ UNCHANGED <<samplerVars, buildVars, mainVars, trialVars, respVars>>
    /\ UNCHANGED axialVars

PresentNext == PresentCall

PresentSpec == PresentInit /\ [][PresentNext]_vars

----------------------------------------------------------------------------
(* create_memory_array *)

ITEM_POSITIONS_PX == << <<0 - 200, 200>>, <<200, 200>>, <<0 - 200, 0 - 200>>, <<200, 0 - 200>> >>

\* the lists a sampler returns when random.randint draws its accepted
\* candidates from `cands` in ascending order
RECURSIVE SampleRuns(_, _, _, _, _)
SampleRuns(s, cnt, sep, cands, ch) ==
    IF ~(Len(ch) < cnt) THEN {ch}
    ELSE UNION { SampleRuns(s, cnt, sep, cands, Append(ch, c)) :
                    c \in {c \in cands : /\ accepts(s, c, ch, sep)
                                         /\ (ch = << >> \/ c > ch[Len(ch)])} }

\* MemoryArrayOf with the two samples exchanged
MemoryArrayOf_swapped(orientations, colors) ==
    [i \in 1..N_ITEMS_PER_ARRAY |->
        [pos |-> ITEM_POSITIONS_PX[i], ori_deg |-> colors[i], color_deg |-> orientations[i]]]

\* the list of dicts create_memory_array builds from the two samples
MemoryArrayOf(orientations, colors) ==
    [i \in 1..N_ITEMS_PER_ARRAY |->
        [pos |-> ITEM_POSITIONS_PX[i], ori_deg |-> orientations[i], color_deg |-> colors[i]]]

\* the arrays create_memory_array returns in a trial
MemoryArrays ==
    { MemoryArrayOf(o, c) :
        o \in SampleRuns(OriCall.sampler, OriCall.n, OriCall.min_sep,
                         Candidates(OriCall.lo, OriCall.hi, TrialOriStride), << >>),
        c \in SampleRuns(ColCall.sampler, ColCall.n, ColCall.min_sep,
                         Candidates(ColCall.lo, ColCall.hi, TrialHueStride), << >>) }

----------------------------------------------------------------------------
(* The stimulus constructors and the calls run_single_trial makes of them *)

\* the constructors of drawing_and_timing.py: the parameters of each, and
\* those of them that have no default value
DrawingSrc ==
    [make_oriented_colored_bar |->
        [params   |-> {"exp", "position_px", "size_deg", "orientation_deg", "color_id"},
         required |-> {"exp", "position_px", "size_deg", "orientation_deg", "color_id"}],
     make_outline_square |->
        [params   |-> {"exp", "position_px", "size_deg", "color", "line_width_px"},
         required |-> {"exp", "position_px", "size_deg"}],
     make_spatial_cue_arrows |->
        [params   |-> {"exp", "target_position_px", "color"},
         required |-> {"exp", "target_position_px"}],
     make_color_cue_square |->
        [params   |-> {"exp", "size_deg", "fill_color_id"},
         required |-> {"exp", "size_deg", "fill_color_id"}],
     make_probe_bar |->
        [params   |-> {"exp", "position_px", "size_deg", "orientation_deg", "color"},
         required |-> {"exp", "position_px", "size_deg", "orientation_deg"}],
     make_feedback_text |->
        [params   |-> {"text", "color", "font_size"},
         required |-> {"text"}]]

\* the keyword arguments of the calls in run_single_trial (none is positional)
Calls ==
    [make_oriented_colored_bar |->
        {"angle_deg", "color_angle_deg", "center_xy", "length_px", "width_px"},
     make_outline_square     |-> {"center_xy", "size_px", "line_width", "colour"},
     make_spatial_cue_arrows |-> {"target_position_px", "color"},
     make_color_cue_square   |-> {"rgb_color", "size_px"},
     make_probe_bar          |-> {"angle_deg", "center_xy", "length_px", "width_px", "color"},
     make_feedback_text      |-> {"text", "color", "font_size"}]

\* a drawing module with the pixel-based constructors the calls are written
\* for: each takes exactly the keyword arguments of its call
DrawingPx ==
    [f \in DOMAIN Calls |-> [params |-> Calls[f], required |-> Calls[f]]]

\* Python binds the arguments of the call of f: every keyword is a parameter
\* and every parameter without a default is given (else TypeError)
Binds(f) ==
    /\ Calls[f] \subseteq drawing[f].params
    /\ drawing[f].required \subseteq Calls[f]

\* what the constructors return: opaque drawables

make_oriented_colored_bar(bar) == Stim("bar", bar.pos, FlInt(bar.ori_deg), bar.color_deg)
make_spatial_cue_arrows(pos) == Stim("arrows", pos, None, 0)
make_color_cue_square(hue) == Stim("color_square", <<0, 0>>, None, hue)
make_outline_square(pos) == Stim("outline", pos, None, 0)
make_probe_bar(angle) == Stim("probe", <<0, 0>>, angle, 0)
make_feedback_text(err) == Stim("feedback", <<0, 0>>, err, 0)

----------------------------------------------------------------------------
(* main and run_single_trial *)

\* the pointer readings exp.mouse.position is let to return
MouseXs == {0 - 225, 0 - 224, 0}

\* the time a draw + flip takes within a trial
TrialDrawTimes == {DrawQuantum}

\* the arguments run_single_trial is called with: the three cue types and a
\* string that is none of them, the shortest and the longest delay
TrialKinds ==
    { [cue_type |-> c, delay |-> d] :
        c \in {CUE_TYPES[i] : i \in 1..Len(CUE_TYPES)} \cup {"unknown"},
        d \in {CUE_PROBE_DELAYS_MS[1], CUE_PROBE_DELAYS_MS[Len(CUE_PROBE_DELAYS_MS)]} }

\* every list of one or two trials
AllTrialLists ==
    { <<t>> : t \in TrialKinds } \cup { <<t, u>> : t \in TrialKinds, u \in TrialKinds }

\* the lists the for loop of main runs over
TrialLists ==
    { <<t>> : t \in TrialKinds }
    \cup { << [cue_type |-> "unknown", delay |-> CUE_PROBE_DELAYS_MS[1]],
              [cue_type |-> "spatial", delay |-> CUE_PROBE_DELAYS_MS[1]] >>,
           << [cue_type |-> "no_cue", delay |-> CUE_PROBE_DELAYS_MS[1]],
              [cue_type |-> "color", delay |-> CUE_PROBE_DELAYS_MS[5]] >> }

\* the branch of the if / elif chain of lines 267-286 taken for the cue type
CueBranch(c) ==
    IF c = "spatial" THEN "spatial"
    ELSE IF c = "color" THEN "color"
    ELSE IF c = "no_cue" THEN "no_cue"
    ELSE "raise"

\* the stimuli the branch presents
CueStims(branch, bar) ==
    IF branch = "spatial" THEN <<make_spatial_cue_arrows(bar.pos)>>
    ELSE IF branch = "color" THEN <<make_color_cue_square(bar.color_deg)>>
    ELSE << >>

\* the duration the no-cue branch would ask for if it skipped the cue interval
CueDuration_skip(branch) == IF branch = "no_cue" THEN 0 ELSE CUE_DURATION_MS

\* the duration the branch asks present_for_ms for
CueDuration(branch) == CUE_DURATION_MS

\* the effect of present_for_ms(exp, stims, duration_ms) on the display and the clock
Presented(stims, duration_ms, took) ==
    LET r == present_for_ms(clock, duration_ms, took)
    IN  /\ present_args' = [stims |-> stims, duration_ms |-> duration_ms]
        /\ last_present' = r
        /\ clock' = r.t1
        /\ screen' = IF r.drew THEN stims ELSE screen
        /\ UNCHANGED ppc

\* main has built the experiment and is about to enter its for loop
MainStarts(module, lists) ==
    /\ SamplerIdle /\ BuildIdle /\ TrialIdle
    /\ clock = 0 /\ screen = << >> /\ present_args = NoArgs
    /\ last_present = NoPresent /\ ppc = "idle"
    /\ drawing = module
    /\ all_trials \in lists
    /\ trial_no = 0
    /\ log = << >>
    /\ mpc = "running"

\* the session with the drawing module of src/
SrcTrialInit == MainStarts(DrawingSrc, AllTrialLists)

\* the session with a drawing module of pixel-based constructors
TrialInit == MainStarts(DrawingPx, TrialLists)

\* main takes the next trial; run_single_trial shows the fixation cross
Fixation ==
    /\ mpc = "running"
    /\ phase \in {"idle", "Done"}
    /\ trial_no < Len(all_trials)
    /\ trial_no' = trial_no + 1
    /\ cue_type' = all_trials[trial_no + 1].cue_type
    /\ cue_probe_delay_ms' = all_trials[trial_no + 1].delay
    /\ \E took \in TrialDrawTimes : Presented(<<FixCross>>, FIXATION_DURATION_MS, took)
    /\ phase' = "Fixation"
    /\ phases' = <<"Fixation">>
    /\ sched' = FIXATION_DURATION_MS
    /\ bars' = << >> /\ target_bar' = NoBar
    /\ current_angle' = None /\ last_mouse_x' = 0 /\ reported_orientation' = None
    /\ response_done' = FALSE /\ offset' = None /\ start_x' = 0 /\ iters' = 0
    /\ signal' = "none"
    /\ UNCHANGED <<drawing, all_trials, log, mpc>>
    /\ UNCHANGED <<samplerVars, buildVars>>
    /\ UNCHANGED axialVars

\* bars = create_memory_array(); the call of make_oriented_colored_bar for
\* the first bar raises TypeError, which neither run_single_trial nor main catches
MemoryArrayRaise ==
    /\ phase = "Fixation"
    /\ ~Binds("make_oriented_colored_bar")
    /\ bars' \in MemoryArrays
    /\ phase' = "TypeError"
    /\ mpc' = "crashed"
    /\ UNCHANGED <<phases, sched, cue_type, cue_probe_delay_ms, target_bar>>
    /\ UNCHANGED <<drawing, all_trials, trial_no, log>>
    /\ UNCHANGED <<samplerVars, buildVars, presentVars, respVars>>
    /\ UNCHANGED axialVars

\* bars = create_memory_array(); the bars are shown
MemoryArray ==
    /\ phase = "Fixation"
    /\ Binds("make_oriented_colored_bar")
    /\ bars' \in MemoryArrays
    /\ \E took \in TrialDrawTimes :
         Presented([i \in 1..Len(bars') |-> make_oriented_colored_bar(bars'[i])],
                   MEMORY_DURATION_MS, took)
    /\ phase' = "MemoryArray"
    /\ phases' = Append(phases, "MemoryArray")
    /\ sched' = sched + MEMORY_DURATION_MS
    /\ UNCHANGED <<cue_type, cue_probe_delay_ms, target_bar>>
    /\ UNCHANGED <<samplerVars, buildVars, mainVars, respVars>>
    /\ UNCHANGED axialVars

\* the first blank delay
BlankDelay1 ==
    /\ phase = "MemoryArray"
    /\ \E took \in TrialDrawTimes : Presented(<< >>, FIRST_BLANK_DELAY_MS, took)
    /\ phase' = "BlankDelay1"
    /\ phases' = Append(phases, "BlankDelay1")
    /\ sched' = sched + FIRST_BLANK_DELAY_MS
    /\ UNCHANGED <<cue_type, cue_probe_delay_ms, bars, target_bar>>
    /\ UNCHANGED <<samplerVars, buildVars, mainVars, respVars>>
    /\ UNCHANGED axialVars

\* target_bar = random.choice(bars); the cue of a known cue type is shown
Cue ==
    /\ phase = "BlankDelay1"
    /\ CueBranch(cue_type) # "raise"
    /\ CueBranch(cue_type) = "spatial" => Binds("make_spatial_cue_arrows")
    /\ CueBranch(cue_type) = "color" => Binds("make_color_cue_square")
    /\ \E i \in 1..Len(bars) : target_bar' = bars[i]
    /\ \E took \in TrialDrawTimes :
         Presented(CueStims(CueBranch(cue_type), target_bar'),
                   CueDuration(CueBranch(cue_type)), took)
    /\ phase' = "Cue"
    /\ phases' = Append(phases, "Cue")
    /\ sched' = sched + CueDuration(CueBranch(cue_type))
    /\ UNCHANGED <<cue_type, cue_probe_delay_ms, bars>>
    /\ UNCHANGED <<samplerVars, buildVars, mainVars, respVars>>
    /\ UNCHANGED axialVars

\* target_bar = random.choice(bars); raise ValueError, which main does not catch
CueRaise ==
    /\ phase = "BlankDelay1"
    /\ CueBranch(cue_type) = "raise"
    /\ \E i \in 1..Len(bars) : target_bar' = bars[i]
    /\ phase' = "ValueError"
    /\ mpc' = "crashed"
    /\ UNCHANGED <<phases, sched, cue_type, cue_probe_delay_ms, bars>>
    /\ UNCHANGED <<drawing, all_trials, trial_no, log>>
    /\ UNCHANGED <<samplerVars, buildVars, presentVars, respVars>>
    /\ UNCHANGED axialVars

\* the variable cue/probe delay
CueProbeDelay ==
    /\ phase = "Cue"
    /\ \E took \in TrialDrawTimes : Presented(<< >>, cue_probe_delay_ms, took)
    /\ phase' = "CueProbeDelay"
    /\ phases' = Append(phases, "CueProbeDelay")
    /\ sched' = sched + cue_probe_delay_ms
    /\ UNCHANGED <<cue_type, cue_probe_delay_ms, bars, target_bar>>
    /\ UNCHANGED <<samplerVars, buildVars, mainVars, respVars>>
    /\ UNCHANGED axialVars

\* the phase the response loop is entered from
ResponseFrom == {"CueProbeDelay"}

\* lines 305-309: the response phase starts
Response ==
    /\ phase \in ResponseFrom
    /\ current_angle' = FlInt(90)
    /\ reported_orientation' = None
    /\ response_done' = FALSE
    /\ \E x \in MouseXs : last_mouse_x' = x /\ start_x' = x
    /\ iters' = 0
    /\ phase' = "Response"
    /\ phases' = Append(phases, "Response")
    /\ UNCHANGED <<offset, signal>>
    /\ UNCHANGED <<sched, cue_type, cue_probe_delay_ms, bars, target_bar>>
    /\ UNCHANGED <<samplerVars, buildVars, presentVars, mainVars>>
    /\ UNCHANGED axialVars

\* one iteration of the while loop of lines 311-342
ResponseIteration ==
    /\ phase = "Response"
    /\ ~response_done
    /\ Binds("make_outline_square") /\ Binds("make_probe_bar")
    /\ screen' = <<make_outline_square(target_bar.pos), make_probe_bar(current_angle)>>
    /\ \E mouse_x \in MouseXs, did \in {"none", "click", "key"} :
        LET dx == mouse_x - last_mouse_x
            angle == IF dx # 0 THEN rotate(current_angle, dx) ELSE current_angle
            mouse_left == (did = "click")
        IN  /\ (mouse_left \/ iters < MaxIters)
            /\ current_angle' = angle
            /\ last_mouse_x' = IF dx # 0 THEN mouse_x ELSE last_mouse_x
            /\ reported_orientation' = IF mouse_left THEN angle ELSE reported_orientation
            /\ response_done' = IF mouse_left THEN TRUE ELSE response_done
            /\ signal' = did
    /\ iters' = iters + 1
    /\ UNCHANGED <<offset, start_x>>
    /\ UNCHANGED <<clock, present_args, last_present, ppc>>
    /\ UNCHANGED <<samplerVars, buildVars, mainVars, trialVars>>
    /\ UNCHANGED axialVars

\* the loop is left: offset = axial_abs_diff(...); the feedback is shown
Feedback ==
    /\ phase = "Response"
    /\ response_done
    /\ Binds("make_feedback_text")
    /\ offset' = axial_abs_diff(reported_orientation, FlInt(target_bar.ori_deg))
    /\ \E took \in TrialDrawTimes :
         Presented(<<make_feedback_text(offset')>>, FEEDBACK_DURATION_MS, took)
    /\ phase' = "Feedback"
    /\ phases' = Append(phases, "Feedback")
    /\ sched' = sched + FEEDBACK_DURATION_MS
    /\ UNCHANGED <<current_angle, last_mouse_x, reported_orientation, response_done,
                   start_x, iters, signal>>
    /\ UNCHANGED <<cue_type, cue_probe_delay_ms, bars, target_bar>>
    /\ UNCHANGED <<samplerVars, buildVars, mainVars>>
    /\ UNCHANGED axialVars

\* run_single_trial returns its dict and main adds the row to exp.data
Done ==
    /\ phase = "Feedback"
    /\ log' = Append(log, [cue_type |-> cue_type,
                           cue_probe_delay_ms |-> cue_probe_delay_ms,
                           true_orientation_deg |-> FlInt(target_bar.ori_deg),
                           reported_orientation_deg |-> reported_orientation,
                           offset_abs_error_deg |-> offset])
    /\ phase' = "Done"
    /\ phases' = Append(phases, "Done")
    /\ UNCHANGED <<sched, cue_type, cue_probe_delay_ms, bars, target_bar>>
    /\ UNCHANGED <<drawing, all_trials, trial_no, mpc>>
    /\ UNCHANGED <<samplerVars, buildVars, presentVars, respVars>>
    /\ UNCHANGED axialVars

\* the for loop of main is over: control.end()
EndSession ==
    /\ mpc = "running"
    /\ phase \in {"idle", "Done"}
    /\ trial_no = Len(all_trials)
    /\ mpc' = "ended"
    /\ UNCHANGED <<drawing, all_trials, trial_no, log>>
    /\ UNCHANGED <<samplerVars, buildVars, presentVars, trialVars, respVars>>
    /\ UNCHANGED axialVars

TrialNext ==
    \/ Fixation \/ MemoryArray \/ BlankDelay1 \/ Cue \/ CueRaise \/ CueProbeDelay
    \/ Response \/ ResponseIteration \/ Feedback \/ Done \/ EndSession

TrialSpec == TrialInit /\ [][TrialNext]_vars

SrcTrialNext == Fixation \/ MemoryArrayRaise

SrcTrialSpec == SrcTrialInit /\ [][SrcTrialNext]_vars

----------------------------------------------------------------------------
(* axial_abs_diff called on its own *)

\* x is one of the doubles of the model (rounding leaves it as it is)
IsDouble(x) == FlRound(x) = x

\* the real number x + 180
Plus180(x) == <<x[1] + 1800, x[2]>>

\* whole degrees: a grid, and the values of the scenario 10, 50, 190
AxialWhole ==
    {i \in 0..360 : i % AxialStep = 0} \cup {10, 50, 190}

\* the arguments: whole degrees, half degrees of the grid, probe angles after
\* one movement, and, where it is a double, the angle 180 degrees further
AxialArgs ==
    LET base == {FlInt(i) : i \in AxialWhole}
                \cup {<<10 * i + 5, 0>> : i \in {j \in 0..359 : j % AxialStep = 0}}
                \cup {rotate(FlInt(90), dx) : dx \in (0 - MaxDx)..MaxDx}
    IN  base \cup {Plus180(x) : x \in {y \in base : IsDouble(Plus180(y))}}

AxialInit ==
    /\ SamplerIdle /\ BuildIdle /\ PresentIdle /\ MainIdle
    /\ phase = "idle" /\ phases = << >> /\ sched = 0 /\ cue_type = "" /\ cue_probe_delay_ms = 0
    /\ bars = << >> /\ target_bar = NoBar
    /\ current_angle = None /\ last_mouse_x = 0 /\ reported_orientation = None
    /\ response_done = FALSE /\ offset = None /\ start_x = 0 /\ iters = 0
    /\ signal = "none"
    /\ arg_a \in AxialArgs
    /\ arg_b \in AxialArgs
    /\ ret = None
    /\ fpc = "call"

\* one call of axial_abs_diff, from entry to return
AxialCall ==
    /\ fpc = "call"
    /\ ret' = axial_abs_diff(arg_a, arg_b)
    /\ fpc' = "returned"
    /\ UNCHANGED <<arg_a, arg_b>>
    /\ UNCHANGED <<samplerVars, buildVars, presentVars, mainVars, trialVars, respVars>>

AxialNext == AxialCall

AxialSpec == AxialInit /\ [][AxialNext]_vars

----------------------------------------------------------------------------
(* Properties of the samplers *)

IsOriCall ==
    /\ sampler = OriCall.sampler /\ n = OriCall.n /\ min_sep = OriCall.min_sep
    /\ lo = OriCall.lo /\ hi = OriCall.hi

\* no integer of [lo, hi] passes the test against the accepted values
DeadEnd ==
    /\ spc = "loop"
    /\ Len(chosen) < n
    /\ \A c \in lo..hi : ~accepts(sampler, c, chosen, min_sep)

\* C1 (as stated): the orientations create_memory_array gets from
\* sample_orientations(4, 30, 1, 180) are pairwise at axial distance >= 30,
\* the axial distance being min(|a-b| mod 180, 180 - (|a-b| mod 180)).
C1_AxialSeparation ==
    (IsOriCall /\ spc = "returned") =>
        \A i, j \in 1..Len(chosen) :
            i # j => circular_distance(chosen[i], chosen[j], 180) >= ORI_MIN_SEP_DEG

\* C2: the list of sample_colors holds values of [lo, hi] that are pairwise at
\* circular distance >= min_sep on the 360 period at every step of the loop,
\* and the returned list has exactly n values.
C2_ColorsSeparated ==
    sampler = "sample_colors" =>
        /\ \A i \in 1..Len(chosen) : chosen[i] >= lo /\ chosen[i] <= hi
        /\ \A i, j \in 1..Len(chosen) :
               i # j => Min2(Abs(chosen[i] - chosen[j]) % 360,
                             360 - (Abs(chosen[i] - chosen[j]) % 360)) >= min_sep
        /\ Len(chosen) <= n
        /\ spc = "returned" => Len(chosen) = n

\* sample_colors has returned n >= 2 hues, two of them on both sides of the
\* 360/0 seam (plain difference above 180)
C2_Witness ==
    /\ sampler = "sample_colors"
    /\ spc = "returned"
    /\ Len(chosen) = n
    /\ \E i, j \in 1..Len(chosen) : chosen[i] - chosen[j] > 180

\* C3 (as stated): once the accepted values exclude every candidate of
\* [lo, hi], the sampler stops looping (it fails after a bounded number of
\* rejected candidates).
C3_InfeasibleStops ==
    [](DeadEnd => <>(spc # "loop"))

\* C4: sample_orientations(4, 30, 1, 180) never reaches a selection of fewer
\* than 4 values that excludes every integer of [1, 180], and under fair
\* candidate choice it returns 4 values with pairwise differences >= 30.
C4_OrientationTerminates ==
    /\ []((IsOriCall /\ spc = "loop" /\ Len(chosen) < 4) =>
            \E c \in 1..180 : \A i \in 1..Len(chosen) : Abs(c - chosen[i]) >= 30)
    /\ (IsOriCall ~>
            (/\ spc = "returned"
             /\ Len(chosen) = 4
             /\ \A i, j \in 1..4 : i # j => Abs(chosen[i] - chosen[j]) >= 30))

\* sample_orientations(4, 30, 1, 180) has returned after a third value that
\* left at most three integers of [1, 180] acceptable
C4_Witness ==
    /\ IsOriCall
    /\ spc = "returned"
    /\ Len(chosen) = 4
    /\ Cardinality({c \in 1..180 :
                      \A i \in 1..3 : Abs(c - chosen[i]) >= 30}) <= 3

----------------------------------------------------------------------------
(* Properties of build_trial_list *)

\* the number of positions of x that hold a trial satisfying P
CountTrials(x, P(_)) == Cardinality({k \in 1..Len(x) : P(x[k])})

\* C5: the list build_trial_list returns holds every (cue type, delay) pair of
\* the design exactly `repeats` times and nothing else: its length is
\* |cue_types| * |delays| * repeats, each cue type occurs |delays| * repeats
\* times and each delay |cue_types| * repeats times, in whatever order.
C5_FullFactorial ==
    bpc = "returned" =>
        LET nc == Len(design.cue_types)
            nd == Len(design.delays)
        IN  /\ Len(trials) = nc * nd * design.repeats
            /\ \A c \in 1..nc, d \in 1..nd :
                 CountTrials(trials, LAMBDA t : t.cue_type = design.cue_types[c]
                                                /\ t.delay = design.delays[d])
                   = design.repeats
            /\ \A c \in 1..nc :
                 CountTrials(trials, LAMBDA t : t.cue_type = design.cue_types[c])
                   = nd * design.repeats
            /\ \A d \in 1..nd :
                 CountTrials(trials, LAMBDA t : t.delay = design.delays[d])
                   = nc * design.repeats

\* build_trial_list has returned a list of 3 x 2 x 2 trials in another order
\* than the loops appended them
C5_Witness ==
    /\ bpc = "returned"
    /\ Len(design.delays) = 2
    /\ design.repeats = 2
    /\ Len(trials) = 12
    /\ trials[1].cue_type # design.cue_types[1]

----------------------------------------------------------------------------
(* Properties of present_for_ms *)

----------------------------------------------------------------------------
(* Properties of run_single_trial and main *)

PhaseOrder ==
    <<"Fixation", "MemoryArray", "BlankDelay1", "Cue", "CueProbeDelay",
      "Response", "Feedback", "Done">>

KnownCues == {"spatial", "color", "no_cue"}

\* C6 (as stated): a trial with a known cue type enters the phases Fixation,
\* MemoryArray, BlankDelay1, Cue, CueProbeDelay, Response, Feedback, Done in
\* this order, none skipped and none entered again, and is ended by no error.
C6_PhaseOrder ==
    (phase # "idle" /\ cue_type \in KnownCues) =>
        /\ Len(phases) >= 1
        /\ Len(phases) <= Len(PhaseOrder)
        /\ phases = SubSeq(PhaseOrder, 1, Len(phases))
        /\ phase = phases[Len(phases)]
        /\ mpc # "crashed"

\* C7 (as stated): a trial whose cue type is none of the known ones ends in the fatal
\* "Unknown cue_type" error at the cue: it never enters Response or Feedback,
\* no row is added to the log for it, and no later trial runs.
C7_UnknownCueFatal ==
    /\ []((phase # "idle" /\ cue_type \notin KnownCues) =>
            /\ phase \in {"Fixation", "MemoryArray", "BlankDelay1", "ValueError"}
            /\ \A i \in 1..Len(phases) : phases[i] \notin {"Cue", "Response", "Feedback", "Done"}
            /\ Len(log) = trial_no - 1
            /\ mpc \in {"running", "crashed"})
    /\ [](mpc = "crashed" =>
            /\ phase = "ValueError"
            /\ cue_type \notin KnownCues
            /\ cue_type = all_trials[trial_no].cue_type)
    /\ [](\A i \in 1..(trial_no - 1) : all_trials[i].cue_type \in KnownCues)
    /\ [][(phase = "BlankDelay1" /\ cue_type \notin KnownCues) =>
            (phase' = "ValueError" /\ mpc' = "crashed" /\ log' = log)]_vars

----------------------------------------------------------------------------
(* Properties of axial_abs_diff *)

\* the whole number of degrees a double stands for
WholeOf(x) == x[1] \div 10

IsWhole(x) == x[2] = 0 /\ x[1] % 10 = 0

\* min(|i - j| mod 180, 180 - (|i - j| mod 180)) in integer arithmetic
ExpectedAxial(i, j) == Min2(Abs(i - j) % 180, 180 - (Abs(i - j) % 180))

----------------------------------------------------------------------------
(* Properties of the session log *)

\* the trials of the list that have run to their end
Completed == IF phase = "Done" THEN trial_no ELSE IF trial_no = 0 THEN 0 ELSE trial_no - 1

\* C13 (as stated): every scheduled trial is run once and adds one record
\* when it finishes: the log holds one record per completed trial, the i-th
\* with the cue type and delay of the i-th trial of the list and with the
\* error of its reported and true orientation; a session of trials with known
\* cue types stops only when all of them have run; records are only appended.
C13_OneRecordPerTrial ==
    /\ [](/\ trial_no <= Len(all_trials)
          /\ Len(log) = Completed
          /\ \A i \in 1..Len(log) :
                /\ log[i].cue_type = all_trials[i].cue_type
                /\ log[i].cue_probe_delay_ms = all_trials[i].delay
                /\ log[i].offset_abs_error_deg =
                      axial_abs_diff(log[i].reported_orientation_deg, log[i].true_orientation_deg))
    /\ []((mpc \in {"ended", "crashed"}
            /\ \A i \in 1..Len(all_trials) : all_trials[i].cue_type \in KnownCues) =>
              Len(log) = Len(all_trials))
    /\ [][/\ trial_no' \in {trial_no, trial_no + 1}
          /\ \/ log' = log
             \/ /\ Len(log') = Len(log) + 1
                /\ SubSeq(log', 1, Len(log)) = log
                /\ phase' = "Done"]_vars

----------------------------------------------------------------------------
(* Properties of the memory array *)

\* C14 (as stated): every item of the array create_memory_array has built
\* has its orientation in [0, 180) and its hue in [0, 360).
C14_ItemRanges ==
    \A i \in 1..Len(bars) :
        /\ bars[i].ori_deg >= 0 /\ bars[i].ori_deg < 180
        /\ bars[i].color_deg >= 0 /\ bars[i].color_deg < 360

\* C14 (amended): every item of the array create_memory_array has built has
\* a whole orientation in [1, 180] and a whole hue in [1, 360], both ends
\* included (ORI_RANGE_DEG and COL_RANGE_DEG as random.randint reads them).
C14_ItemRangesInclusive ==
    \A i \in 1..Len(bars) :
        /\ bars[i].ori_deg \in ORI_RANGE_DEG[1]..ORI_RANGE_DEG[2]
        /\ ORI_RANGE_DEG = <<1, 180>>
        /\ bars[i].color_deg \in COL_RANGE_DEG[1]..COL_RANGE_DEG[2]
        /\ COL_RANGE_DEG = <<1, 360>>

\* an array has been built with an item of orientation 180 and an item of hue 360
C14_Witness ==
    /\ Len(bars) = N_ITEMS_PER_ARRAY
    /\ \E i \in 1..Len(bars) : bars[i].ori_deg = 180
    /\ \E i \in 1..Len(bars) : bars[i].color_deg = 360

----------------------------------------------------------------------------
(* Properties of the frame shown at the confirmation *)

====
